---- MODULE Spec2Model ----
(***************************************************************************)
(* Student-Management-System: the manager layer (src/managers.py) over the *)
(* SQLite store (src/database.py), plus the UI handler that resets gpas    *)
(* (src/app_window.py).                                                    *)
(*                                                                         *)
(* Numbers.  A numeric grade is a float in the source; here it is a whole  *)
(* number of thousandths (59.9 is 59900, 59.999 is 59999, 100.0 is         *)
(* 100000).  A gpa, and an average grade rounded to 2 decimals, is a whole *)
(* number of hundredths (2.86 is 286).  Credits and gpa points are         *)
(* integers.                                                               *)
(***************************************************************************)
EXTENDS Integers, Sequences, FiniteSets, TLC

VARIABLES
    students,      \* table students:  id -> [name, email, gpa]
    courses,       \* table courses:   id -> [name, semester, credits]
    grades,        \* table grades:    set of rows [student_id, course_id, grade, letter_grade]
    activity_log,  \* table activity_log: its number of rows (the program only ever inserts into it)
    last,          \* the call that completed last, its arguments and its outcome
    recorded,      \* history: per (student_id, course_id) the grade of the latest successful GradeManager.add
    arg,           \* argument of the pure function under evaluation
    ret            \* its result

vars == <<students, courses, grades, activity_log, last, recorded, arg, ret>>
db   == <<students, courses, grades, activity_log>>

---------------------------------------------------------------------------
(* Bounds and input sets *)

MaxLog == 6            \* activity_log holds at most this many rows in the model

StudentIds == {"S001", "S002"}
\* ids StudentManager.add is offered: the well-formed ones, one of two
\* characters and one with a character that is not alphanumeric
StudentIdInputs == StudentIds \cup {"S1", "S-01"}
CourseIds  == {"C101", "C102"}

NoId    == "-"         \* "no such argument" in the call record
NoGrade == -1          \* "no grade" in the call record and in the history
NoValue == -2          \* ret before the function was applied
NotANumber == -3       \* a grade argument float() rejects, in the call record
NoEmail == "NULL"      \* the email column of a student stored without one

Whole(n) == 1000 * n   \* the float n.0 in thousandths

ValidGrades   == {Whole(55), Whole(91)}
\* grade arguments float() accepts but the range check refuses
OutOfRange    == {Whole(100) + 1, 0 - 1}

\* arguments of GradeManager.add: parses says whether float(grade) succeeds.
\* The refused grades are offered for one pair of ids, which the call never
\* looks at before it raises.
GradeInputs ==
    {<<sid, cid, [parses |-> TRUE, val |-> v]>> :
        sid \in StudentIds, cid \in CourseIds, v \in ValidGrades}
    \cup {<<"S001", "C101", [parses |-> TRUE, val |-> v]>> : v \in OutOfRange}
    \cup {<<"S001", "C101", [parses |-> FALSE, val |-> 0]>>}

\* arguments of StudentManager.add (sid, name, email): every id with a name
\* and no email, and a blank name and a malformed email for a well-formed id
StudentInputs ==
    {<<sid, "Ann", "">> : sid \in StudentIdInputs}
    \cup {<<"S001", " ", "">>, <<"S001", "Ann", "not-an-email">>}

\* arguments of CourseManager.add (cid, name, semester, credits): credits in
\* and out of 1..6, and an empty name, an empty semester and an empty id
CreditInputs == {0, 3, 4, 7}
CourseInputs ==
    {<<cid, "Algorithms", "F24", credits>> : cid \in CourseIds, credits \in CreditInputs}
    \cup {<<"C101", "", "F24", 3>>, <<"C101", "Algorithms", "", 3>>,
          <<"", "Algorithms", "F24", 3>>}

---------------------------------------------------------------------------
(* Storage gateway *)

\* sqlite3.connect() issues no "PRAGMA foreign_keys = ON": SQLite leaves
\* foreign-key enforcement off, so the FOREIGN KEY ... ON DELETE CASCADE
\* clauses of the grades table are declared but never act.
foreign_keys == FALSE

\* rows of grades that survive "DELETE FROM students WHERE id IN gone"
CascadeStudents(rows, gone) ==
    IF foreign_keys THEN {g \in rows : g.student_id \notin gone} ELSE rows

\* rows of grades that survive "DELETE FROM courses WHERE id IN gone"
CascadeCourses(rows, gone) ==
    IF foreign_keys THEN {g \in rows : g.course_id \notin gone} ELSE rows

\* INSERT INTO activity_log (user_id, action, details): one more row
Log(action) == activity_log + 1

\* the record of a completed call: prev is the grade of the previous
\* successful GradeManager.add for the pair, twice says that
\* update_student_gpa directly follows the same call, after is the course
\* whose successful CourseManager.delete update_student_gpa directly follows,
\* failed is the number of the writing call that raised from the store
Call(op, sid, cid, grade, outcome) ==
    [op |-> op, sid |-> sid, cid |-> cid, grade |-> grade, outcome |-> outcome,
     prev |-> NoGrade, twice |-> FALSE, after |-> NoId, failed |-> 0]


---------------------------------------------------------------------------
(* Pure functions of src/managers.py *)

\* len(sid) for the ids of StudentIdInputs
IdLen(sid) == IF sid = "S1" THEN 2 ELSE 4

\* the id check without isalnum()
IsAlnumUnchecked(sid) == TRUE

\* sid.isalnum() for the ids of StudentIdInputs
IsAlnum(sid) == sid # "S-01"

\* StudentManager.validate_email: ^[\w\.-]+@[\w\.-]+\.\w+$ on the addresses of StudentInputs
validate_email(email) == email \notin {"", "not-an-email"}

\* "email or None": the value StudentManager.add stores in the email column
EmailOrNone(email) == IF email = "" THEN NoEmail ELSE email

\* email TEXT UNIQUE: a stored email that is not NULL is already that of a row
EmailTaken(st, email) == email # NoEmail /\ \E s \in DOMAIN st : st[s].email = email

\* the thresholds as exclusive lower bounds
calculate_letter_exclusive(grade) ==
    IF grade > Whole(90) THEN "A"
    ELSE IF grade > Whole(80) THEN "B"
    ELSE IF grade > Whole(70) THEN "C"
    ELSE IF grade > Whole(60) THEN "D"
    ELSE "F"

calculate_letter(grade) ==
    IF grade >= Whole(90) THEN "A"
    ELSE IF grade >= Whole(80) THEN "B"
    ELSE IF grade >= Whole(70) THEN "C"
    ELSE IF grade >= Whole(60) THEN "D"
    ELSE "F"

\* the second copy of the thresholds drifting from the first
grade_to_gpa_points_drift(grade) ==
    IF grade >= Whole(93) THEN 4
    ELSE IF grade >= Whole(83) THEN 3
    ELSE IF grade >= Whole(73) THEN 2
    ELSE IF grade >= Whole(63) THEN 1
    ELSE 0

grade_to_gpa_points(grade) ==
    IF grade >= Whole(90) THEN 4
    ELSE IF grade >= Whole(80) THEN 3
    ELSE IF grade >= Whole(70) THEN 2
    ELSE IF grade >= Whole(60) THEN 1
    ELSE 0

\* the range check without its upper end
ValidGradeNoUpper(g) == g.parses /\ 0 <= g.val

\* float(grade) succeeds and 0 <= grade <= 100
ValidGrade(g) == g.parses /\ 0 <= g.val /\ g.val <= Whole(100)

\* truncation to 2 decimals in place of rounding
Truncate2(num, den) == (100 * num) \div den

\* round(num / den, 2) in hundredths: the nearest hundredth, an exact tie
\* going to the even one
Round2(num, den) ==
    LET q == (100 * num) \div den
        r == (100 * num) % den
    IN  IF 2 * r < den THEN q
        ELSE IF 2 * r > den THEN q + 1
        ELSE IF q % 2 = 0 THEN q ELSE q + 1

\* SELECT g.grade, c.credits FROM grades g JOIN courses c ON c.id = g.course_id
\* WHERE g.student_id = sid
JoinedRows(gr, co, sid) ==
    {g \in gr : g.student_id = sid /\ g.course_id \in DOMAIN co}

\* the loop of update_student_gpa: total_points and total_credits
RECURSIVE Totals(_, _)
Totals(rows, co) ==
    IF rows = {} THEN [points |-> 0, credits |-> 0]
    ELSE LET g    == CHOOSE x \in rows : TRUE
             rest == Totals(rows \ {g}, co)
             cr   == co[g.course_id].credits
         IN  [points  |-> rest.points + grade_to_gpa_points(g.grade) * cr,
              credits |-> rest.credits + cr]

\* the UPDATE without its WHERE clause
SetGpaEveryRow(st, sid, v) == [s \in DOMAIN st |-> [st[s] EXCEPT !.gpa = v]]

\* UPDATE students SET gpa = v WHERE id = sid
SetGpa(st, sid, v) ==
    [s \in DOMAIN st |-> IF s = sid THEN [st[s] EXCEPT !.gpa = v] ELSE st[s]]

\* the new average blended with the stored gpa
update_student_gpa_blend(st, co, gr, sid) ==
    LET result == JoinedRows(gr, co, sid)
        t      == Totals(result, co)
    IN  IF result = {} \/ sid \notin DOMAIN st THEN st
        ELSE IF t.credits > 0
             THEN SetGpa(st, sid, (st[sid].gpa + Round2(t.points, t.credits)) \div 2)
        ELSE st

\* no grades resetting the gpa to 0.0
update_student_gpa_reset(st, co, gr, sid) ==
    LET result == JoinedRows(gr, co, sid)
        t      == Totals(result, co)
    IN  IF result = {} THEN SetGpa(st, sid, 0)
        ELSE IF t.credits > 0 THEN SetGpa(st, sid, Round2(t.points, t.credits))
        ELSE st

\* the points divided by the number of grades in place of the credits
update_student_gpa_bycount(st, co, gr, sid) ==
    LET result == JoinedRows(gr, co, sid)
        t      == Totals(result, co)
    IN  IF result = {} THEN st
        ELSE IF t.credits > 0 THEN SetGpa(st, sid, Round2(t.points, Cardinality(result)))
        ELSE st

\* GradeManager.update_student_gpa: the students table it leaves
update_student_gpa(st, co, gr, sid) ==
    LET result == JoinedRows(gr, co, sid)
        t      == Totals(result, co)
    IN  IF result = {} THEN st
        ELSE IF t.credits > 0 THEN SetGpa(st, sid, Round2(t.points, t.credits))
        ELSE st

\* a plain INSERT: the row of the pair is kept next to the new one
InsertKeepingOld(rows, row) == rows \cup {row}

\* the replacement keyed on the student alone
InsertOrReplaceByStudent(rows, row) ==
    {r \in rows : r.student_id # row.student_id} \cup {row}

\* INSERT OR REPLACE INTO grades under UNIQUE(student_id, course_id)
InsertOrReplace(rows, row) ==
    {r \in rows : ~(r.student_id = row.student_id /\ r.course_id = row.course_id)}
    \cup {row}

\* the table without the rows of the ids in gone
Without(table, gone) == [k \in DOMAIN table \ gone |-> table[k]]

---------------------------------------------------------------------------
(* The state after Database.init_db() on a fresh store *)

EmptyStore ==
    /\ students = <<>>
    /\ courses = <<>>
    /\ grades = {}
    /\ activity_log = 0
    /\ last = Call("none", NoId, NoId, NoGrade, "ok")
    /\ recorded = [p \in StudentIds \X CourseIds |-> NoGrade]

NotApplied == [letter |-> "?", points |-> NoValue]

Init ==
    /\ EmptyStore
    /\ arg = 0
    /\ ret = NotApplied

\* a call that raised before its first write; a validation error is recorded
\* with the argument values it was raised for, an error of the store with the
\* id it was raised for
Raised(op, sid, cid, grade, outcome) ==
    /\ last' = Call(op, sid, cid, grade, outcome)
    /\ UNCHANGED <<students, courses, grades, activity_log, recorded, arg, ret>>

CanLog == activity_log < MaxLog

---------------------------------------------------------------------------
(* StudentManager *)

StudentManager_add(sid, name, email) ==
    IF IdLen(sid) < 3 \/ ~IsAlnum(sid) \/ name = " "
       \/ (email # "" /\ ~validate_email(email))
    THEN Raised("StudentManager.add", NoId, NoId, NoGrade, "ValueError")
    ELSE IF sid \in DOMAIN students \/ EmailTaken(students, EmailOrNone(email))
    THEN Raised("StudentManager.add", sid, NoId, NoGrade, "IntegrityError")
    ELSE /\ CanLog
         /\ students' = (sid :> [name |-> name, email |-> EmailOrNone(email), gpa |-> 0])
                            @@ students
         /\ activity_log' = Log("add_student")
         /\ last' = Call("StudentManager.add", sid, NoId, NoGrade, "ok")
         /\ UNCHANGED <<courses, grades, recorded, arg, ret>>

\* the method without its lookup: DELETE and log whatever the id
StudentManager_delete_unchecked(sid) ==
    /\ CanLog
    /\ students' = Without(students, {sid})
    /\ grades' = CascadeStudents(grades, {sid})
    /\ activity_log' = Log("delete_student")
    /\ last' = Call("StudentManager.delete", sid, NoId, NoGrade, "ok")
    /\ UNCHANGED <<courses, recorded, arg, ret>>

StudentManager_delete(sid) ==
    IF sid \notin DOMAIN students
    THEN Raised("StudentManager.delete", sid, NoId, NoGrade, "ValueError")
    ELSE /\ CanLog
         /\ students' = Without(students, {sid})
         /\ grades' = CascadeStudents(grades, {sid})
         /\ activity_log' = Log("delete_student")
         /\ last' = Call("StudentManager.delete", sid, NoId, NoGrade, "ok")
         /\ UNCHANGED <<courses, recorded, arg, ret>>

StudentManager_delete_all ==
    /\ CanLog
    /\ students' = <<>>
    /\ grades' = CascadeStudents(grades, DOMAIN students)
    /\ activity_log' = Log("delete_all_students")
    /\ last' = Call("StudentManager.delete_all", NoId, NoId, NoGrade, "ok")
    /\ UNCHANGED <<courses, recorded, arg, ret>>

---------------------------------------------------------------------------
(* CourseManager *)

CourseManager_add(cid, name, semester, credits) ==
    IF cid = "" \/ name = "" \/ semester = ""
    THEN Raised("CourseManager.add", NoId, NoId, NoGrade, "ValueError")
    ELSE IF ~(1 <= credits /\ credits <= 6)
    THEN Raised("CourseManager.add", NoId, NoId, NoGrade, "ValueError")
    ELSE IF cid \in DOMAIN courses
    THEN Raised("CourseManager.add", NoId, cid, NoGrade, "IntegrityError")
    ELSE /\ CanLog
         /\ courses' = (cid :> [name |-> name, semester |-> semester, credits |-> credits])
                           @@ courses
         /\ activity_log' = Log("add_course")
         /\ last' = Call("CourseManager.add", NoId, cid, NoGrade, "ok")
         /\ UNCHANGED <<students, grades, recorded, arg, ret>>

CourseManager_delete(cid) ==
    IF cid \notin DOMAIN courses
    THEN Raised("CourseManager.delete", NoId, cid, NoGrade, "ValueError")
    ELSE /\ CanLog
         /\ courses' = Without(courses, {cid})
         /\ grades' = CascadeCourses(grades, {cid})
         /\ activity_log' = Log("delete_course")
         /\ last' = Call("CourseManager.delete", NoId, cid, NoGrade, "ok")
         /\ UNCHANGED <<students, recorded, arg, ret>>

CourseManager_delete_all ==
    /\ CanLog
    /\ courses' = <<>>
    /\ grades' = CascadeCourses(grades, DOMAIN courses)
    /\ activity_log' = Log("delete_all_courses")
    /\ last' = Call("CourseManager.delete_all", NoId, NoId, NoGrade, "ok")
    /\ UNCHANGED <<students, recorded, arg, ret>>

\* the handler without its UPDATE students SET gpa = 0.0
delete_all_courses_keeping_gpa ==
    /\ DOMAIN courses # {}
    /\ CanLog
    /\ courses' = <<>>
    /\ grades' = CascadeCourses(grades, DOMAIN courses)
    /\ activity_log' = Log("delete_all_courses")
    /\ last' = Call("AcademicApp.delete_all_courses", NoId, NoId, NoGrade, "ok")
    /\ UNCHANGED <<students, recorded, arg, ret>>

\* AcademicApp.delete_all_courses, both confirmations answered yes:
\* CourseManager.delete_all, then UPDATE students SET gpa = 0.0
delete_all_courses ==
    /\ DOMAIN courses # {}
    /\ CanLog
    /\ courses' = <<>>
    /\ grades' = CascadeCourses(grades, DOMAIN courses)
    /\ activity_log' = Log("delete_all_courses")
    /\ students' = [s \in DOMAIN students |-> [students[s] EXCEPT !.gpa = 0]]
    /\ last' = Call("AcademicApp.delete_all_courses", NoId, NoId, NoGrade, "ok")
    /\ UNCHANGED <<recorded, arg, ret>>

---------------------------------------------------------------------------
(* GradeManager *)

GradeManager_add(sid, cid, g) ==
    IF ~ValidGrade(g)
    THEN Raised("GradeManager.add", NoId, NoId, IF g.parses THEN g.val ELSE NotANumber, "ValueError")
    ELSE IF foreign_keys /\ (sid \notin DOMAIN students \/ cid \notin DOMAIN courses)
    THEN Raised("GradeManager.add", sid, cid, g.val, "IntegrityError")
    ELSE LET letter == calculate_letter(g.val)
             row    == [student_id |-> sid, course_id |-> cid,
                        grade |-> g.val, letter_grade |-> letter]
             stored == InsertOrReplace(grades, row)
         IN  /\ CanLog
             /\ grades' = stored
             /\ students' = update_student_gpa(students, courses, stored, sid)
             /\ activity_log' = Log("add_grade")
             /\ recorded' = [recorded EXCEPT ![<<sid, cid>>] = g.val]
             /\ last' = [Call("GradeManager.add", sid, cid, g.val, "ok")
                           EXCEPT !.prev = recorded[<<sid, cid>>]]
             /\ UNCHANGED <<courses, arg, ret>>

\* GradeManager.update_student_gpa called on its own
GradeManager_update_student_gpa(sid) ==
    /\ students' = update_student_gpa(students, courses, grades, sid)
    /\ last' = [Call("GradeManager.update_student_gpa", sid, NoId, NoGrade, "ok")
                  EXCEPT !.twice = (last.op = "GradeManager.update_student_gpa" /\ last.sid = sid),
                         !.after = IF last.op = "CourseManager.delete" /\ last.outcome = "ok"
                                   THEN last.cid ELSE NoId]
    /\ UNCHANGED <<courses, grades, activity_log, recorded, arg, ret>>

---------------------------------------------------------------------------

Next ==
    \/ \E in \in StudentInputs : StudentManager_add(in[1], in[2], in[3])
    \/ \E sid \in StudentIds : StudentManager_delete(sid)
    \/ StudentManager_delete_all
    \/ \E in \in CourseInputs : CourseManager_add(in[1], in[2], in[3], in[4])
    \/ \E cid \in CourseIds : CourseManager_delete(cid)
    \/ CourseManager_delete_all
    \/ delete_all_courses
    \/ \E in \in GradeInputs : GradeManager_add(in[1], in[2], in[3])
    \/ \E sid \in StudentIds : GradeManager_update_student_gpa(sid)

Spec == Init /\ [][Next]_vars

---------------------------------------------------------------------------
(* The letter and the gpa points of every grade from 0.0 to 100.0 *)

InitLetter ==
    /\ EmptyStore
    /\ arg \in 0 .. Whole(100)
    /\ ret = NotApplied

Classify ==
    /\ ret = NotApplied
    /\ ret' = [letter |-> calculate_letter(arg), points |-> grade_to_gpa_points(arg)]
    /\ UNCHANGED <<students, courses, grades, activity_log, last, recorded, arg>>

NextLetter == Classify

SpecLetter == InitLetter /\ [][NextLetter]_vars

---------------------------------------------------------------------------
(* update_student_gpa on every store of one student, up to two courses of  *)
(* 1 to 6 credits and a grade of each letter.  Each of these stores is one *)
(* the operations above produce: with foreign keys off, grades are written *)
(* and kept while their course is absent, and a gpa stays when courses go. *)

GpaGrades == {Whole(55), Whole(65), Whole(75), Whole(85), Whole(91)}

\* the grade rows of S001 for an assignment course -> grade or NoGrade
RowsOf(f) ==
    {[student_id |-> "S001", course_id |-> c, grade |-> f[c],
      letter_grade |-> calculate_letter(f[c])] : c \in {x \in DOMAIN f : f[x] # NoGrade}}

InitGpa ==
    /\ students \in [{"S001"} -> [name : {"Ann"}, email : {NoEmail}, gpa : {0, 400}]]
    /\ \E D \in SUBSET CourseIds :
          courses \in [D -> [name : {"Algorithms"}, semester : {"F24"}, credits : 1 .. 6]]
    /\ \E f \in [CourseIds -> GpaGrades \cup {NoGrade}] :
          /\ grades = RowsOf(f)
          /\ recorded = [p \in StudentIds \X CourseIds |->
                            IF p[1] = "S001" THEN f[p[2]] ELSE NoGrade]
    /\ activity_log = MaxLog
    /\ last = Call("none", NoId, NoId, NoGrade, "ok")
    /\ arg = 0
    /\ ret = NotApplied

NextGpa == \E sid \in StudentIds : GradeManager_update_student_gpa(sid)

SpecGpa == InitGpa /\ [][NextGpa]_vars

---------------------------------------------------------------------------
(* Reports.  A query returns its rows as a sequence; where ORDER BY leaves *)
(* rows tied, SQLite may return them in either order, so a report is the   *)
(* set of the sequences the query can return.                              *)

StudentNames == {"Ann", "Bob"}
CourseNames  == {"Algorithms", "Biology"}

\* the place of a name in ORDER BY name (BINARY collation), for the names above
NameRank(n) == IF n \in {"Ann", "Algorithms"} THEN 1 ELSE 2

\* the sequences that hold every element of the set rows once
Orderings(rows) ==
    {q \in [1 .. Cardinality(rows) -> rows] :
        \A i, j \in 1 .. Cardinality(rows) : i # j => q[i] # q[j]}

\* ORDER BY: the orderings of rows in which the sort key key[row] never
\* decreases; ORDER BY ... DESC takes the negated column as the key
OrderBy(rows, key) ==
    {q \in Orderings(rows) :
        \A i, j \in 1 .. Cardinality(rows) : i < j => key[q[i]] <= key[q[j]]}

\* the result rows of a query, one per source row, in the order of q
Select(q, row) == [i \in 1 .. Len(q) |-> row[q[i]]]

\* the query with WHERE g.grade <= 60
get_failing_students_inclusive(st, co, gr) ==
    LET joined == {g \in gr : /\ g.student_id \in DOMAIN st /\ g.course_id \in DOMAIN co
                              /\ g.grade <= Whole(60)}
        key == [g \in joined |->
                   2 * NameRank(st[g.student_id].name) + NameRank(co[g.course_id].name)]
        row == [g \in joined |->
                   [name |-> st[g.student_id].name, id |-> g.student_id,
                    email |-> st[g.student_id].email, course |-> co[g.course_id].name,
                    grade |-> g.grade, letter_grade |-> g.letter_grade]]
    IN  {Select(q, row) : q \in OrderBy(joined, key)}

\* GradeManager.get_failing_students: grades JOIN students JOIN courses
\* WHERE g.grade < 60 ORDER BY s.name, c.name
get_failing_students(st, co, gr) ==
    LET joined == {g \in gr : /\ g.student_id \in DOMAIN st /\ g.course_id \in DOMAIN co
                              /\ g.grade < Whole(60)}
        key == [g \in joined |->
                   2 * NameRank(st[g.student_id].name) + NameRank(co[g.course_id].name)]
        row == [g \in joined |->
                   [name |-> st[g.student_id].name, id |-> g.student_id,
                    email |-> st[g.student_id].email, course |-> co[g.course_id].name,
                    grade |-> g.grade, letter_grade |-> g.letter_grade]]
    IN  {Select(q, row) : q \in OrderBy(joined, key)}

\* the grade rows of an assignment (student, course) -> grade or NoGrade
RowsFrom(f) ==
    {[student_id |-> p[1], course_id |-> p[2], grade |-> f[p],
      letter_grade |-> calculate_letter(f[p])] : p \in {x \in DOMAIN f : f[x] # NoGrade}}

\* a report is run on a store the operations above have left; the history
\* and the call record play no part in it
ReportOn(st, co, gr) ==
    /\ students = st /\ courses = co /\ grades = gr
    /\ activity_log = MaxLog
    /\ last = Call("none", NoId, NoId, NoGrade, "ok")
    /\ recorded = [p \in StudentIds \X CourseIds |-> NoGrade]
    /\ arg = 0
    /\ ret = NotApplied

\* the result of a report
Report(name, rows) ==
    /\ ret = NotApplied
    /\ ret' = [report |-> name, rows |-> rows]
    /\ UNCHANGED <<students, courses, grades, activity_log, last, recorded, arg>>

---------------------------------------------------------------------------
(* get_failing_students on every store of up to two named students, up to  *)
(* two named courses and, per pair, no grade, 59.9 or 60.0; a pair whose   *)
(* student or course is absent is a row the deletes have left behind.      *)

FailingGrades == {Whole(60) - 100, Whole(60)}

InitFailing ==
    \E S \in SUBSET StudentIds, C \in SUBSET CourseIds :
        \E st \in [S -> [name : StudentNames, email : {NoEmail}, gpa : {0}]],
           co \in [C -> [name : CourseNames, semester : {"F24"}, credits : {3}]],
           f  \in [StudentIds \X CourseIds -> FailingGrades \cup {NoGrade}] :
            ReportOn(st, co, RowsFrom(f))

GradeManager_get_failing_students ==
    \E rows \in get_failing_students(students, courses, grades) : Report("failing", rows)

NextFailing == GradeManager_get_failing_students

SpecFailing == InitFailing /\ [][NextFailing]_vars

---------------------------------------------------------------------------
(* get_gpa_rankings and get_academic_status on every store of up to two    *)
(* students with a gpa at, just below and just above each threshold, up to *)
(* two courses and, per pair, no grade, a 55.0 or a 91.0                   *)

\* the query with WHERE gpa >= 0
get_gpa_rankings_inclusive(st, gr) ==
    LET listed == {s \in DOMAIN st : st[s].gpa >= 0}
        key == [s \in listed |-> 0 - st[s].gpa]
        row == [s \in listed |->
                   [name |-> st[s].name, id |-> s, gpa |-> st[s].gpa,
                    courses |-> Cardinality({g \in gr : g.student_id = s})]]
    IN  {Select(q, row) : q \in OrderBy(listed, key)}

\* Analytics.get_gpa_rankings: FROM students WHERE gpa > 0 ORDER BY gpa DESC,
\* with (SELECT COUNT(*) FROM grades WHERE student_id = students.id) as courses
get_gpa_rankings(st, gr) ==
    LET listed == {s \in DOMAIN st : st[s].gpa > 0}
        key == [s \in listed |-> 0 - st[s].gpa]
        row == [s \in listed |->
                   [name |-> st[s].name, id |-> s, gpa |-> st[s].gpa,
                    courses |-> Cardinality({g \in gr : g.student_id = s})]]
    IN  {Select(q, row) : q \in OrderBy(listed, key)}

\* the label with the thresholds as exclusive lower bounds
status_exclusive(gpa) ==
    IF gpa > 350 THEN "Dean's List"
    ELSE IF gpa > 200 THEN "Good Standing"
    ELSE IF gpa > 100 THEN "Warning"
    ELSE "Academic Probation"

\* the if/elif chain of get_academic_status
status(gpa) ==
    IF gpa >= 350 THEN "Dean's List"
    ELSE IF gpa >= 200 THEN "Good Standing"
    ELSE IF gpa >= 100 THEN "Warning"
    ELSE "Academic Probation"

\* Analytics.get_academic_status: one labelled row per row of the rankings
get_academic_status(st, gr) ==
    {[i \in 1 .. Len(rankings) |->
         [name |-> rankings[i].name, id |-> rankings[i].id, gpa |-> rankings[i].gpa,
          courses |-> rankings[i].courses, status |-> status(rankings[i].gpa)]] :
        rankings \in get_gpa_rankings(st, gr)}

GpaLevels == {0, 1, 99, 100, 199, 200, 349, 350, 400}

InitRanking ==
    \E S \in SUBSET StudentIds, C \in SUBSET CourseIds :
        \E st \in [S -> [name : {"Ann"}, email : {NoEmail}, gpa : GpaLevels]],
           co \in [C -> [name : {"Algorithms"}, semester : {"F24"}, credits : {3}]],
           f  \in [StudentIds \X CourseIds -> {Whole(55), Whole(91), NoGrade}] :
            ReportOn(st, co, RowsFrom(f))

Analytics_get_gpa_rankings ==
    \E rows \in get_gpa_rankings(students, grades) : Report("rankings", rows)

Analytics_get_academic_status ==
    \E rows \in get_academic_status(students, grades) : Report("status", rows)

NextRanking ==
    \/ Analytics_get_gpa_rankings
    \/ Analytics_get_academic_status

SpecRanking == InitRanking /\ [][NextRanking]_vars

---------------------------------------------------------------------------
(* get_course_statistics on every store of up to two students, up to two   *)
(* named courses and, per pair, no grade, 59.999, 60.0 or 91.0.  A grade   *)
(* is any float from 0 to 100, so it may carry more than 2 decimals.       *)

RECURSIVE SumGrades(_)
SumGrades(rows) ==
    IF rows = {} THEN 0
    ELSE LET g == CHOOSE x \in rows : TRUE IN g.grade + SumGrades(rows \ {g})

\* AVG(g.grade) cut to 2 decimals in place of ROUND
TruncateAvg(sum, n) == sum \div (10 * n)

\* ROUND(AVG(g.grade), 2) in hundredths, from the sum in thousandths and the
\* number of rows: the nearest hundredth.  SQLite sends a tie away from
\* zero; no average of the grades below is a tie.
RoundAvg(sum, n) ==
    LET q == sum \div (10 * n)
        r == sum % (10 * n)
    IN  IF 2 * r >= 10 * n THEN q + 1 ELSE q

\* Analytics.get_course_statistics: grades JOIN courses GROUP BY c.id
\* ORDER BY avg_grade DESC, avg_grade being the rounded column
get_course_statistics(co, gr) ==
    LET Of(c)  == {g \in gr : g.course_id = c}
        graded == {c \in DOMAIN co : Of(c) # {}}
        Avg(c) == RoundAvg(SumGrades(Of(c)), Cardinality(Of(c)))
        key == [c \in graded |-> 0 - Avg(c)]
        row == [c \in graded |->
                   [name |-> co[c].name, semester |-> co[c].semester,
                    enrolled |-> Cardinality({g.student_id : g \in Of(c)}),
                    avg_grade |-> Avg(c),
                    min_grade |-> CHOOSE m \in {g.grade : g \in Of(c)} :
                                     \A g \in Of(c) : m <= g.grade,
                    max_grade |-> CHOOSE m \in {g.grade : g \in Of(c)} :
                                     \A g \in Of(c) : m >= g.grade]]
    IN  {Select(q, row) : q \in OrderBy(graded, key)}

StatGrades == {Whole(60) - 1, Whole(60), Whole(91)}

InitStats ==
    \E S \in SUBSET StudentIds, C \in SUBSET CourseIds :
        \E st \in [S -> [name : {"Ann"}, email : {NoEmail}, gpa : {0}]],
           co \in [C -> [name : CourseNames, semester : {"F24"}, credits : {3}]],
           f  \in [StudentIds \X CourseIds -> StatGrades \cup {NoGrade}] :
            ReportOn(st, co, RowsFrom(f))

Analytics_get_course_statistics ==
    \E rows \in get_course_statistics(courses, grades) : Report("statistics", rows)

NextStats == Analytics_get_course_statistics

SpecStats == InitStats /\ [][NextStats]_vars

---------------------------------------------------------------------------
(* ImportExport.import_students_csv                                        *)

MaxRows == 3           \* a CSV file holds at most this many student rows

\* rows of a CSV file: year_ok says whether int(row['enrollment_year'])
\* succeeds; an empty field is read as the empty string; the import looks
\* at neither the id nor the name
CsvRows ==
    {[id |-> "S001", name |-> "Cy", email |-> "",         year_ok |-> TRUE],
     [id |-> "S002", name |-> "Cy", email |-> "",         year_ok |-> TRUE],
     [id |-> "S001", name |-> "Cy", email |-> "cy@x.org", year_ok |-> TRUE],
     [id |-> "S002", name |-> "Cy", email |-> "cy@x.org", year_ok |-> TRUE],
     [id |-> "S002", name |-> "Cy", email |-> "",         year_ok |-> FALSE],
     [id |-> "S1",   name |-> "Cy", email |-> "",         year_ok |-> TRUE],
     [id |-> "S002", name |-> "",   email |-> "",         year_ok |-> TRUE]}

CsvFiles == UNION {[1 .. n -> CsvRows] : n \in 0 .. MaxRows}

\* INSERT OR IGNORE INTO students: a row that breaks PRIMARY KEY (id) or
\* UNIQUE (email) is dropped without an error; the email is stored as read,
\* the empty string included
InsertOrIgnore(st, row) ==
    IF row.id \in DOMAIN st \/ EmailTaken(st, row.email) THEN st
    ELSE (row.id :> [name |-> row.name, email |-> row.email, gpa |-> 0]) @@ st

\* the loop over the rows: a row whose int() raises is passed over, any
\* other row is counted once its INSERT OR IGNORE has returned
RECURSIVE ImportLoop(_, _, _)
ImportLoop(st, count, file) ==
    IF file = <<>> THEN [students |-> st, count |-> count]
    ELSE IF ~Head(file).year_ok THEN ImportLoop(st, count, Tail(file))
    ELSE ImportLoop(InsertOrIgnore(st, Head(file)), count + 1, Tail(file))

ImportExport_import_students_csv(file) ==
    LET done == ImportLoop(students, 0, file)
    IN  /\ CanLog
        /\ students' = done.students
        /\ activity_log' = Log("import_students")
        /\ last' = Call("ImportExport.import_students_csv", NoId, NoId, NoGrade, "ok")
        /\ arg' = file
        /\ ret' = [count |-> done.count]
        /\ UNCHANGED <<courses, grades, recorded>>

\* the import is run once on every store of up to two students that
\* StudentManager.add (no email: NULL) and earlier imports (the email as
\* read) can have left; the log has room for the row of one import
InitImport ==
    /\ \E S \in SUBSET StudentIds :
          /\ students \in [S -> [name : {"Ann"}, email : {NoEmail, "", "cy@x.org"}, gpa : {0}]]
          /\ \A s, t \in S : (s # t /\ students[s].email # NoEmail)
                                => students[s].email # students[t].email
    /\ courses = <<>>
    /\ grades = {}
    /\ activity_log = MaxLog - 1
    /\ last = Call("none", NoId, NoId, NoGrade, "ok")
    /\ recorded = [p \in StudentIds \X CourseIds |-> NoGrade]
    /\ arg = <<>>
    /\ ret = NotApplied

NextImport == \E file \in CsvFiles : ImportExport_import_students_csv(file)

SpecImport == InitImport /\ [][NextImport]_vars

---------------------------------------------------------------------------
(* Failures of the store.  Database.execute opens a connection, runs one   *)
(* statement and commits it; an operation is a sequence of such calls, and *)
(* a call that raises (sqlite3.OperationalError: the file is locked, the   *)
(* disk is full) ends the operation after the calls before it.             *)

\* one transaction around the whole operation, rolled back when a call raises
one_transaction == FALSE

\* no transaction spans two calls of Database.execute: what a call has
\* committed stays when a later call of the same operation raises
autocommit == TRUE

Store ==
    [students |-> students, courses |-> courses, grades |-> grades,
     activity_log |-> activity_log]

\* the store after ActivityLog.log
Logged(store) == [store EXCEPT !.activity_log = @ + 1]

\* the stores an operation passes through, one per writing call, in order
Writes_StudentManager_add(sid, name, email) ==
    LET inserted == [Store EXCEPT !.students =
                        (sid :> [name |-> name, email |-> EmailOrNone(email), gpa |-> 0]) @@ @]
    IN  <<inserted, Logged(inserted)>>

Writes_StudentManager_delete(sid) ==
    LET deleted == [Store EXCEPT !.students = Without(@, {sid}),
                                 !.grades = CascadeStudents(@, {sid})]
    IN  <<deleted, Logged(deleted)>>

Writes_StudentManager_delete_all ==
    LET deleted == [Store EXCEPT !.students = <<>>,
                                 !.grades = CascadeStudents(@, DOMAIN students)]
    IN  <<deleted, Logged(deleted)>>

Writes_CourseManager_add(cid, name, semester, credits) ==
    LET inserted == [Store EXCEPT !.courses =
                        (cid :> [name |-> name, semester |-> semester, credits |-> credits]) @@ @]
    IN  <<inserted, Logged(inserted)>>

Writes_CourseManager_delete(cid) ==
    LET deleted == [Store EXCEPT !.courses = Without(@, {cid}),
                                 !.grades = CascadeCourses(@, {cid})]
    IN  <<deleted, Logged(deleted)>>

Writes_CourseManager_delete_all ==
    LET deleted == [Store EXCEPT !.courses = <<>>,
                                 !.grades = CascadeCourses(@, DOMAIN courses)]
    IN  <<deleted, Logged(deleted)>>

\* CourseManager.delete_all, then UPDATE students SET gpa = 0.0
Writes_delete_all_courses ==
    LET logged == Writes_CourseManager_delete_all[2]
    IN  Writes_CourseManager_delete_all
        \o <<[logged EXCEPT !.students = [s \in DOMAIN @ |-> [@[s] EXCEPT !.gpa = 0]]]>>

\* the log entry written before the gpa update
Writes_GradeManager_add_log_early(sid, cid, g) ==
    LET row      == [student_id |-> sid, course_id |-> cid, grade |-> g.val,
                     letter_grade |-> calculate_letter(g.val)]
        upserted == [Store EXCEPT !.grades = InsertOrReplace(@, row)]
        logged   == Logged(upserted)
    IN  <<upserted, logged,
          [logged EXCEPT !.students = update_student_gpa(@, courses, upserted.grades, sid)]>>

\* the upsert, the UPDATE of update_student_gpa, the log
Writes_GradeManager_add(sid, cid, g) ==
    LET row      == [student_id |-> sid, course_id |-> cid, grade |-> g.val,
                     letter_grade |-> calculate_letter(g.val)]
        upserted == [Store EXCEPT !.grades = InsertOrReplace(@, row)]
        updated  == [upserted EXCEPT !.students =
                        update_student_gpa(@, courses, upserted.grades, sid)]
    IN  <<upserted, updated, Logged(updated)>>

\* the rows of the file, then the log
Writes_import_students_csv(file) ==
    LET imported == [Store EXCEPT !.students = ImportLoop(@, 0, file).students]
    IN  <<imported, Logged(imported)>>

\* the operation whose writing calls lead through the stores of writes
\* raises at call number failed, which is not its first; it is the first
\* operation to raise
Interrupted(op, sid, cid, grade, writes) ==
    \E failed \in 2 .. Len(writes) :
        LET kept == IF autocommit THEN writes[failed - 1] ELSE Store
        IN  /\ last.outcome # "OperationalError"
            /\ kept.activity_log <= MaxLog
            /\ students' = kept.students
            /\ courses' = kept.courses
            /\ grades' = kept.grades
            /\ activity_log' = kept.activity_log
            /\ last' = [Call(op, sid, cid, grade, "OperationalError") EXCEPT !.failed = failed]
            /\ UNCHANGED <<recorded, arg, ret>>

Interrupted_StudentManager_add(sid) ==
    /\ sid \notin DOMAIN students
    /\ Interrupted("StudentManager.add", sid, NoId, NoGrade,
                   Writes_StudentManager_add(sid, "Ann", ""))

Interrupted_StudentManager_delete(sid) ==
    /\ sid \in DOMAIN students
    /\ Interrupted("StudentManager.delete", sid, NoId, NoGrade,
                   Writes_StudentManager_delete(sid))

Interrupted_StudentManager_delete_all ==
    Interrupted("StudentManager.delete_all", NoId, NoId, NoGrade,
                Writes_StudentManager_delete_all)

Interrupted_CourseManager_add(cid, credits) ==
    /\ cid \notin DOMAIN courses
    /\ Interrupted("CourseManager.add", NoId, cid, NoGrade,
                   Writes_CourseManager_add(cid, "Algorithms", "F24", credits))

Interrupted_CourseManager_delete(cid) ==
    /\ cid \in DOMAIN courses
    /\ Interrupted("CourseManager.delete", NoId, cid, NoGrade,
                   Writes_CourseManager_delete(cid))

Interrupted_CourseManager_delete_all ==
    Interrupted("CourseManager.delete_all", NoId, NoId, NoGrade,
                Writes_CourseManager_delete_all)

Interrupted_delete_all_courses ==
    /\ DOMAIN courses # {}
    /\ Interrupted("AcademicApp.delete_all_courses", NoId, NoId, NoGrade,
                   Writes_delete_all_courses)

Interrupted_GradeManager_add(sid, cid, g) ==
    /\ ValidGrade(g)
    /\ Interrupted("GradeManager.add", sid, cid, g.val, Writes_GradeManager_add(sid, cid, g))

Interrupted_import_students_csv(file) ==
    Interrupted("ImportExport.import_students_csv", NoId, NoId, NoGrade,
                Writes_import_students_csv(file))

\* the operations as long as none has raised from the store
Operate == last.outcome # "OperationalError" /\ Next

\* the operations, and at most one of them raising from the store
NextFailure ==
    \/ Operate
    \/ \E sid \in StudentIds : Interrupted_StudentManager_add(sid)
    \/ \E sid \in StudentIds : Interrupted_StudentManager_delete(sid)
    \/ Interrupted_StudentManager_delete_all
    \/ \E cid \in CourseIds : Interrupted_CourseManager_add(cid, 3)
    \/ \E cid \in CourseIds : Interrupted_CourseManager_delete(cid)
    \/ Interrupted_CourseManager_delete_all
    \/ Interrupted_delete_all_courses
    \/ \E in \in GradeInputs : Interrupted_GradeManager_add(in[1], in[2], in[3])
    \/ \E row \in CsvRows : Interrupted_import_students_csv(<<row>>)

SpecFailure == Init /\ [][NextFailure]_vars

---------------------------------------------------------------------------
(* The student rows under StudentManager.add, StudentManager.update and    *)
(* import_students_csv of one-row files                                    *)

\* arguments of StudentManager.update (sid, name, email): a name and an
\* empty name for every id, and a malformed email
UpdateInputs ==
    {<<sid, name, "">> : sid \in StudentIds, name \in {"Bea", ""}}
    \cup {<<"S001", "Bea", "not-an-email">>}

\* UPDATE students SET name = ?, email = ? WHERE id = sid
SetFields(st, sid, name, email) ==
    [s \in DOMAIN st |-> IF s = sid THEN [st[s] EXCEPT !.name = name, !.email = email]
                         ELSE st[s]]

\* StudentManager.update: the email check, the UPDATE of the rows with the
\* id (none when the id is not stored), the log
StudentManager_update(sid, name, email) ==
    IF email # "" /\ ~validate_email(email)
    THEN Raised("StudentManager.update", NoId, NoId, NoGrade, "ValueError")
    ELSE IF sid \in DOMAIN students
            /\ EmailTaken(Without(students, {sid}), EmailOrNone(email))
    THEN Raised("StudentManager.update", sid, NoId, NoGrade, "IntegrityError")
    ELSE /\ CanLog
         /\ students' = SetFields(students, sid, name, EmailOrNone(email))
         /\ activity_log' = Log("update_student")
         /\ last' = Call("StudentManager.update", sid, NoId, NoGrade, "ok")
         /\ UNCHANGED <<courses, grades, recorded, arg, ret>>

NextStudent ==
    \/ \E in \in StudentInputs : StudentManager_add(in[1], in[2], in[3])
    \/ \E in \in UpdateInputs : StudentManager_update(in[1], in[2], in[3])
    \/ \E row \in CsvRows : ImportExport_import_students_csv(<<row>>)

SpecStudent == Init /\ [][NextStudent]_vars

---------------------------------------------------------------------------
(* AcademicApp.add_grade, the grade-entry handler of the window, on every  *)
(* store of up to two students, up to two courses and, per pair, no grade, *)
(* 55.0 or 91.0                                                            *)

\* the three entry fields after strip(): ids, the empty field among them,
\* and a grade text that is empty, numeric in or out of range, or no number
EntryInputs ==
    {<<sid, cid, [parses |-> TRUE, val |-> Whole(91)]>> :
        sid \in StudentIds \cup {""}, cid \in CourseIds \cup {""}}
    \cup {<<"S001", "C101", g>> :
            g \in {[parses |-> TRUE, val |-> Whole(55)],
                   [parses |-> TRUE, val |-> Whole(100) + 1],
                   [parses |-> FALSE, val |-> 0],
                   [parses |-> FALSE, val |-> NoGrade]}}

\* the grade field is empty
EmptyField(g) == ~g.parses /\ g.val = NoGrade

\* the handler calling GradeManager.add without its two lookups
add_grade_unchecked(sid, cid, g) ==
    IF sid = "" \/ cid = "" \/ EmptyField(g)
    THEN Raised("AcademicApp.add_grade", sid, cid, NoGrade, "error")
    ELSE IF ~ValidGrade(g)
    THEN Raised("AcademicApp.add_grade", sid, cid,
                IF g.parses THEN g.val ELSE NotANumber, "error")
    ELSE LET row    == [student_id |-> sid, course_id |-> cid, grade |-> g.val,
                        letter_grade |-> calculate_letter(g.val)]
             stored == InsertOrReplace(grades, row)
         IN  /\ CanLog
             /\ grades' = stored
             /\ students' = update_student_gpa(students, courses, stored, sid)
             /\ activity_log' = Log("add_grade")
             /\ recorded' = [p \in DOMAIN recorded |->
                                IF p = <<sid, cid>> THEN g.val ELSE recorded[p]]
             /\ last' = Call("AcademicApp.add_grade", sid, cid, g.val, "ok")
             /\ UNCHANGED <<courses, arg, ret>>

\* AcademicApp.add_grade: the empty-field checks, the lookups of the student
\* and the course, then GradeManager.add; every refusal and every error of
\* GradeManager.add ends in messagebox.showerror
add_grade(sid, cid, g) ==
    IF sid = "" \/ cid = "" \/ EmptyField(g)
    THEN Raised("AcademicApp.add_grade", sid, cid, NoGrade, "error")
    ELSE IF sid \notin DOMAIN students \/ cid \notin DOMAIN courses
    THEN Raised("AcademicApp.add_grade", sid, cid,
                IF g.parses THEN g.val ELSE NotANumber, "error")
    ELSE IF ~ValidGrade(g)
    THEN Raised("AcademicApp.add_grade", sid, cid,
                IF g.parses THEN g.val ELSE NotANumber, "error")
    ELSE LET row    == [student_id |-> sid, course_id |-> cid, grade |-> g.val,
                        letter_grade |-> calculate_letter(g.val)]
             stored == InsertOrReplace(grades, row)
         IN  /\ CanLog
             /\ grades' = stored
             /\ students' = update_student_gpa(students, courses, stored, sid)
             /\ activity_log' = Log("add_grade")
             /\ recorded' = [p \in DOMAIN recorded |->
                                IF p = <<sid, cid>> THEN g.val ELSE recorded[p]]
             /\ last' = Call("AcademicApp.add_grade", sid, cid, g.val, "ok")
             /\ UNCHANGED <<courses, arg, ret>>

InitEntry ==
    \E S \in SUBSET StudentIds, C \in SUBSET CourseIds :
        \E st \in [S -> [name : {"Ann"}, email : {NoEmail}, gpa : {0, 400}]],
           co \in [C -> [name : {"Algorithms"}, semester : {"F24"}, credits : {3}]],
           f  \in [StudentIds \X CourseIds -> {Whole(55), Whole(91), NoGrade}] :
            /\ students = st /\ courses = co /\ grades = RowsFrom(f)
            /\ recorded = f
            /\ activity_log = MaxLog - 1
            /\ last = Call("none", NoId, NoId, NoGrade, "ok")
            /\ arg = 0
            /\ ret = NotApplied

NextEntry == \E in \in EntryInputs : add_grade(in[1], in[2], in[3])

SpecEntry == InitEntry /\ [][NextEntry]_vars

---------------------------------------------------------------------------
(* Operators the properties are stated with *)

GradeRows(sid, cid) == {g \in grades : g.student_id = sid /\ g.course_id = cid}

\* the letter and the gpa points of a grade, by interval
LetterOf(g) ==
    CASE g >= 90000 -> "A"
      [] g >= 80000 /\ g < 90000 -> "B"
      [] g >= 70000 /\ g < 80000 -> "C"
      [] g >= 60000 /\ g < 70000 -> "D"
      [] g < 60000 -> "F"

PointsOfLetter(l) ==
    CASE l = "A" -> 4 [] l = "B" -> 3 [] l = "C" -> 2 [] l = "D" -> 1 [] l = "F" -> 0

\* credits times points of the grade of sid in course cid, 0 without one
CoursePoints(sid, cid) ==
    IF cid \in DOMAIN courses /\ GradeRows(sid, cid) # {}
    THEN LET g == CHOOSE x \in GradeRows(sid, cid) : TRUE
         IN  courses[cid].credits * PointsOfLetter(LetterOf(g.grade))
    ELSE 0

CourseCredits(sid, cid) ==
    IF cid \in DOMAIN courses /\ GradeRows(sid, cid) # {}
    THEN courses[cid].credits ELSE 0

RECURSIVE SumOver(_, _, _)
SumOver(F(_, _), sid, cids) ==
    IF cids = {} THEN 0
    ELSE LET c == CHOOSE x \in cids : TRUE
         IN  F(sid, c) + SumOver(F, sid, cids \ {c})

\* v hundredths is the hundredth nearest to points / credits
NearestHundredth(v, points, credits) ==
    LET d == 100 * points - v * credits
    IN  2 * d <= credits /\ 2 * (0 - d) <= credits

\* the stored gpa of sid is the credit-weighted average of its grades
GpaIsWeightedAverage(sid) ==
    NearestHundredth(students[sid].gpa,
                     SumOver(CoursePoints, sid, CourseIds),
                     SumOver(CourseCredits, sid, CourseIds))

HasJoinedGrade(sid) ==
    \E g \in grades : g.student_id = sid /\ g.course_id \in DOMAIN courses

---------------------------------------------------------------------------
(* C1: in every state, every student who has a grade row (in a course that *)
(* exists, so that the average is defined) has a stored gpa equal to the   *)
(* credit-weighted average of the gpa points of the student's current      *)
(* grade rows, rounded to 2 decimals.                                      *)
C1_GpaAlwaysWeightedAverage ==
    \A sid \in DOMAIN students : HasJoinedGrade(sid) => GpaIsWeightedAverage(sid)

(* C2: there is at most one grade row per (student_id, course_id), and it  *)
(* holds the value and the letter of the latest successful                 *)
(* GradeManager.add for the pair; 91 is stored with 'A', and when the row  *)
(* is the student's only grade in an existing course the gpa is that of    *)
(* the latest value alone.                                                 *)
C2_UpsertKeepsLatest ==
    /\ \A sid \in StudentIds, cid \in CourseIds :
          /\ Cardinality(GradeRows(sid, cid)) <= 1
          /\ recorded[<<sid, cid>>] # NoGrade =>
                GradeRows(sid, cid) =
                    {[student_id |-> sid, course_id |-> cid,
                      grade |-> recorded[<<sid, cid>>],
                      letter_grade |-> LetterOf(recorded[<<sid, cid>>])]}
          /\ recorded[<<sid, cid>>] = 91000 =>
                \A g \in GradeRows(sid, cid) : g.letter_grade = "A"
    /\ (/\ last.op = "GradeManager.add" /\ last.outcome = "ok"
        /\ last.sid \in DOMAIN students /\ last.cid \in DOMAIN courses
        /\ \A g \in grades : g.student_id = last.sid /\ g.course_id \in DOMAIN courses
                                => g.course_id = last.cid)
       => students[last.sid].gpa = 100 * PointsOfLetter(LetterOf(last.grade))

\* 55 was stored for the pair and 91 has replaced it
C2_Witness ==
    /\ last.op = "GradeManager.add" /\ last.outcome = "ok"
    /\ last.prev = 55000 /\ last.grade = 91000
    /\ last.sid \in DOMAIN students /\ last.cid \in DOMAIN courses
    /\ students[last.sid].gpa = 400

(* C3: deleting a student or a course removes every grade row of that      *)
(* student or course (from which the claim concludes that every grade row  *)
(* references an existing student and an existing course).                 *)
C3_DeleteCascadesToGrades ==
    [][/\ \A sid \in DOMAIN students \ DOMAIN students' :
             \A g \in grades' : g.student_id # sid
       /\ \A cid \in DOMAIN courses \ DOMAIN courses' :
             \A g \in grades' : g.course_id # cid]_vars

(* C4: GradeManager.add with a student id or a course id that does not     *)
(* exist fails with an error and stores no grade row.                      *)
C4_AddRejectsMissingIds ==
    [][(/\ last'.op = "GradeManager.add"
        /\ last'.sid \in StudentIds /\ last'.cid \in CourseIds
        /\ (last'.sid \notin DOMAIN students \/ last'.cid \notin DOMAIN courses))
       => (last'.outcome # "ok" /\ grades' = grades)]_vars

(* C5: GradeManager.add with a grade that does not parse as a number or    *)
(* lies outside [0,100] raises a validation error and leaves the grades    *)
(* table, every student's gpa and the activity log unchanged.              *)
C5_InvalidGradeChangesNothing ==
    [][(/\ last'.op = "GradeManager.add"
        /\ (last'.grade = NotANumber \/ last'.grade < 0 \/ last'.grade > 100000))
       => (/\ last'.outcome = "ValueError"
           /\ UNCHANGED <<grades, students, activity_log>>)]_vars

\* an out-of-range grade was refused while grades and a gpa were stored
C5_Witness ==
    /\ last.op = "GradeManager.add" /\ last.outcome = "ValueError"
    /\ last.grade = 100001
    /\ grades # {}
    /\ \E sid \in DOMAIN students : students[sid].gpa > 0
    /\ activity_log > 0

---------------------------------------------------------------------------
(* C6: for every grade g in [0,100], calculate_letter(g) is 'A' iff        *)
(* g >= 90, 'B' iff 80 <= g < 90, 'C' iff 70 <= g < 80, 'D' iff            *)
(* 60 <= g < 70 and 'F' iff g < 60; 60 gives 'D'.                          *)
C6_LetterThresholds ==
    ret # NotApplied =>
        /\ (ret.letter = "A") <=> (arg >= 90000)
        /\ (ret.letter = "B") <=> (80000 <= arg /\ arg < 90000)
        /\ (ret.letter = "C") <=> (70000 <= arg /\ arg < 80000)
        /\ (ret.letter = "D") <=> (60000 <= arg /\ arg < 70000)
        /\ (ret.letter = "F") <=> (arg < 60000)
        /\ (arg = 60000 => ret.letter = "D")

\* the grade 60.0 has been classified
C6_Witness == ret # NotApplied /\ arg = 60000 /\ ret.letter = "D"

(* C7: each stored grade row's letter_grade is the letter of the row's     *)
(* numeric grade, and the gpa points of the row's grade are those of that  *)
(* letter (A=4, B=3, C=2, D=1, F=0).                                       *)
C7_LetterAndPointsFollowGrade ==
    \A g \in grades :
        /\ g.letter_grade = LetterOf(g.grade)
        /\ grade_to_gpa_points(g.grade) = PointsOfLetter(g.letter_grade)

\* a grade was replaced by one of another letter
C7_Witness ==
    /\ last.op = "GradeManager.add" /\ last.outcome = "ok"
    /\ last.prev # NoGrade /\ LetterOf(last.prev) # LetterOf(last.grade)
    /\ \E g \in grades : g.grade = last.grade /\ g.student_id = last.sid
                          /\ g.course_id = last.cid

(* C8: update_student_gpa stores round(sum(points * credits) /             *)
(* sum(credits), 2) over the student's grades joined with their courses;   *)
(* an A in a 3-credit course and a C in a 4-credit course store 2.86.      *)
AThreeCFour(sid) ==
    \E c1, c2 \in DOMAIN courses :
        /\ courses[c1].credits = 3 /\ courses[c2].credits = 4
        /\ \E g \in GradeRows(sid, c1) : g.letter_grade = "A"
        /\ \E g \in GradeRows(sid, c2) : g.letter_grade = "C"
        /\ \A g \in grades : g.student_id = sid => g.course_id \in {c1, c2}

C8_StoresRoundedWeightedAverage ==
    (/\ last.op = "GradeManager.update_student_gpa"
     /\ last.sid \in DOMAIN students
     /\ HasJoinedGrade(last.sid))
    => /\ GpaIsWeightedAverage(last.sid)
       /\ AThreeCFour(last.sid) => students[last.sid].gpa = 286

C8_Witness ==
    /\ last.op = "GradeManager.update_student_gpa"
    /\ last.sid \in DOMAIN students
    /\ AThreeCFour(last.sid)
    /\ students[last.sid].gpa = 286

(* C9: update_student_gpa called twice in a row for the same student, with *)
(* no other call in between, leaves the stored gpa of the first call and   *)
(* changes nothing else.                                                   *)
C9_UpdateGpaIdempotent ==
    [][(last'.op = "GradeManager.update_student_gpa" /\ last'.twice)
       => UNCHANGED db]_vars

\* the second of two calls has returned for a student whose gpa comes from grades
C9_Witness ==
    /\ last.op = "GradeManager.update_student_gpa" /\ last.twice
    /\ last.sid \in DOMAIN students
    /\ HasJoinedGrade(last.sid)
    /\ students[last.sid].gpa > 0

(* C10: update_student_gpa for a student with no grade joined to an        *)
(* existing course leaves the stored gpa as it was; it is not reset to 0.  *)
C10_NoGradesKeepsGpa ==
    [][(/\ last'.op = "GradeManager.update_student_gpa"
        /\ ~HasJoinedGrade(last'.sid))
       => UNCHANGED students]_vars

\* the call has returned for a student without joined grades whose gpa is not 0
C10_Witness ==
    /\ last.op = "GradeManager.update_student_gpa"
    /\ last.sid \in DOMAIN students
    /\ ~HasJoinedGrade(last.sid)
    /\ students[last.sid].gpa > 0

---------------------------------------------------------------------------
(* C11: when update_student_gpa directly follows the deletion of a course, *)
(* for a student who had a grade in that course and still has a grade in   *)
(* a course that exists, the stored gpa is the credit-weighted average     *)
(* over the grades of the remaining courses only; the deletion changes no  *)
(* student's gpa, and the update changes no other student's.               *)
C11_GpaOverRemainingCourses ==
    /\ []((/\ last.op = "GradeManager.update_student_gpa" /\ last.after # NoId
           /\ last.sid \in DOMAIN students
           /\ GradeRows(last.sid, last.after) # {}
           /\ HasJoinedGrade(last.sid))
          => /\ last.after \notin DOMAIN courses
             /\ NearestHundredth(students[last.sid].gpa,
                                 SumOver(CoursePoints, last.sid, DOMAIN courses),
                                 SumOver(CourseCredits, last.sid, DOMAIN courses)))
    /\ [][/\ (last'.op = "CourseManager.delete" /\ last'.outcome = "ok")
                => students' = students
          /\ last'.op = "GradeManager.update_student_gpa"
                => \A s \in DOMAIN students \ {last'.sid} :
                      s \in DOMAIN students' /\ students'[s] = students[s]]_vars

\* an A in the remaining course and an F in the deleted one: 4.0 is stored
C11_Witness ==
    /\ last.op = "GradeManager.update_student_gpa" /\ last.after # NoId
    /\ last.sid \in DOMAIN students
    /\ \E g \in GradeRows(last.sid, last.after) : g.letter_grade = "F"
    /\ \E g \in grades : /\ g.student_id = last.sid /\ g.course_id \in DOMAIN courses
                          /\ g.letter_grade = "A"
    /\ students[last.sid].gpa = 400

(* C12: when the "delete all courses" handler has completed, the courses   *)
(* table is empty and every student's stored gpa is 0.0.                   *)
C12_DeleteAllCoursesResetsGpa ==
    (last.op = "AcademicApp.delete_all_courses" /\ last.outcome = "ok")
    => /\ DOMAIN courses = {}
       /\ \A s \in DOMAIN students : students[s].gpa = 0

\* the handler has completed for a student who holds an A
C12_Witness ==
    /\ last.op = "AcademicApp.delete_all_courses" /\ last.outcome = "ok"
    /\ \E g \in grades : g.student_id \in DOMAIN students /\ g.letter_grade = "A"

(* C20: in every reachable state every student's stored gpa lies between   *)
(* 0.0 and 4.0 inclusive.                                                  *)
C20_GpaInRange ==
    \A s \in DOMAIN students : 0 <= students[s].gpa /\ students[s].gpa <= 400

\* one student at 4.0 next to one at 0.0
C20_Witness ==
    \E s, t \in DOMAIN students : students[s].gpa = 400 /\ students[t].gpa = 0

---------------------------------------------------------------------------
(* C13: get_failing_students returns exactly the grade rows with a grade   *)
(* strictly below 60 whose student and course exist, each once, ordered by *)
(* student name and then course name: a grade of 59.9 is listed, a grade   *)
(* of 60.0 is not, and the result is empty when no grade is below 60.      *)
FailingRowOf(g) ==
    [name |-> students[g.student_id].name, id |-> g.student_id,
     email |-> students[g.student_id].email, course |-> courses[g.course_id].name,
     grade |-> g.grade, letter_grade |-> g.letter_grade]

JoinedBelow60 ==
    {g \in grades : /\ g.student_id \in DOMAIN students /\ g.course_id \in DOMAIN courses
                    /\ g.grade < 60000}

C13_FailingListIsExact ==
    ret # NotApplied =>
        LET rows == ret.rows
            n    == Len(rows)
        IN  /\ n = Cardinality(JoinedBelow60)
            /\ \A g \in JoinedBelow60 :
                  Cardinality({i \in 1 .. n : rows[i] = FailingRowOf(g)})
                    = Cardinality({h \in JoinedBelow60 : FailingRowOf(h) = FailingRowOf(g)})
            /\ \A i \in 1 .. n : rows[i].grade < 60000 /\ rows[i].grade # 60000
            /\ \A g \in grades :
                  (/\ g.grade = 59900 /\ g.student_id \in DOMAIN students
                   /\ g.course_id \in DOMAIN courses)
                  => \E i \in 1 .. n : rows[i].id = g.student_id /\ rows[i].grade = 59900
            /\ \A i, j \in 1 .. n : i < j =>
                  \/ NameRank(rows[i].name) < NameRank(rows[j].name)
                  \/ /\ rows[i].name = rows[j].name
                     /\ NameRank(rows[i].course) <= NameRank(rows[j].course)
            /\ (\A g \in grades : g.grade >= 60000) => rows = <<>>

\* Bob's 59.9 in Biology and Ann's in Algorithms are listed, Ann first,
\* while a 60.0 is stored too
C13_Witness ==
    /\ ret # NotApplied /\ Len(ret.rows) = 2
    /\ ret.rows[1].name = "Ann" /\ ret.rows[2].name = "Bob"
    /\ ret.rows[1].id = "S002" /\ ret.rows[2].course = "Biology"
    /\ \E g \in grades : g.grade = 60000 /\ g.student_id \in DOMAIN students
                          /\ g.course_id \in DOMAIN courses

---------------------------------------------------------------------------
(* C14: get_gpa_rankings returns exactly the students whose stored gpa is  *)
(* greater than 0, each once and with that gpa, in non-increasing order of *)
(* gpa; a student whose gpa is exactly 0 appears neither in                *)
(* get_gpa_rankings nor in get_academic_status.                            *)
C14_RankingsListPositiveGpa ==
    ret # NotApplied =>
        LET rows == ret.rows
            n    == Len(rows)
        IN  /\ \A i \in 1 .. n : rows[i].id \in DOMAIN students => students[rows[i].id].gpa # 0
            /\ ret.report = "rankings" =>
                  /\ {rows[i].id : i \in 1 .. n} = {s \in DOMAIN students : students[s].gpa > 0}
                  /\ \A i, j \in 1 .. n : i # j => rows[i].id # rows[j].id
                  /\ \A i \in 1 .. n : rows[i].gpa = students[rows[i].id].gpa
                  /\ \A i, j \in 1 .. n : i < j => rows[i].gpa >= rows[j].gpa

\* the rankings list the one student above 0 and leave out the one at 0
C14_Witness ==
    /\ ret # NotApplied /\ ret.report = "rankings"
    /\ Len(ret.rows) = 1 /\ ret.rows[1].gpa = 1
    /\ \E s \in DOMAIN students : students[s].gpa = 0

(* C15: get_academic_status returns the rows of get_gpa_rankings in the    *)
(* same order and number, each extended with exactly one label: "Dean's    *)
(* List" if gpa >= 3.5, "Good Standing" if 2.0 <= gpa < 3.5, "Warning" if  *)
(* 1.0 <= gpa < 2.0 and "Academic Probation" otherwise (0 < gpa < 1.0).    *)
C15_StatusLabelsRankings ==
    (ret # NotApplied /\ ret.report = "status") =>
        LET rows == ret.rows
            n    == Len(rows)
        IN  /\ [i \in 1 .. n |-> [name |-> rows[i].name, id |-> rows[i].id,
                                  gpa |-> rows[i].gpa, courses |-> rows[i].courses]]
                  \in get_gpa_rankings(students, grades)
            /\ \A i \in 1 .. n :
                  /\ DOMAIN rows[i] = {"name", "id", "gpa", "courses", "status"}
                  /\ (rows[i].status = "Dean's List") <=> (rows[i].gpa >= 350)
                  /\ (rows[i].status = "Good Standing") <=> (200 <= rows[i].gpa /\ rows[i].gpa < 350)
                  /\ (rows[i].status = "Warning") <=> (100 <= rows[i].gpa /\ rows[i].gpa < 200)
                  /\ (rows[i].status = "Academic Probation") <=> (0 < rows[i].gpa /\ rows[i].gpa < 100)

\* 3.5 is on the Dean's List and 3.49 in Good Standing
C15_Witness ==
    /\ ret # NotApplied /\ ret.report = "status" /\ Len(ret.rows) = 2
    /\ ret.rows[1].gpa = 350 /\ ret.rows[1].status = "Dean's List"
    /\ ret.rows[2].gpa = 349 /\ ret.rows[2].status = "Good Standing"

---------------------------------------------------------------------------
(* C16: get_course_statistics returns exactly one row per course that has  *)
(* at least one grade and no row for a course without grades; each row's   *)
(* enrolled count is the number of distinct student ids graded in the      *)
(* course and rows are in non-increasing order of average grade.  The      *)
(* average is the mean rounded to 2 decimals.                              *)
GradesIn(c) == {g \in grades : g.course_id = c}

GradedCourses == {c \in DOMAIN courses : GradesIn(c) # {}}

\* row is the statistics row of course c, whatever its average column says
StatRowOf(row, c) ==
    /\ row.name = courses[c].name /\ row.semester = courses[c].semester
    /\ row.enrolled = Cardinality({g.student_id : g \in GradesIn(c)})
    /\ \E g \in GradesIn(c) : g.grade = row.min_grade
    /\ \A g \in GradesIn(c) : row.min_grade <= g.grade
    /\ \E g \in GradesIn(c) : g.grade = row.max_grade
    /\ \A g \in GradesIn(c) : g.grade <= row.max_grade

\* the rows are those of the graded courses, one each, by descending average
OneRowPerGradedCourse(rows) ==
    /\ \E q \in Orderings(GradedCourses) :
          /\ Len(rows) = Len(q)
          /\ \A i \in 1 .. Len(q) : StatRowOf(rows[i], q[i])
    /\ \A i, j \in 1 .. Len(rows) : i < j => rows[i].avg_grade >= rows[j].avg_grade

(* C16 as stated: in addition, min <= avg <= max in every row.             *)
C16_AvgBetweenMinAndMax ==
    ret # NotApplied =>
        /\ OneRowPerGradedCourse(ret.rows)
        /\ \A i \in 1 .. Len(ret.rows) :
              /\ ret.rows[i].min_grade <= 10 * ret.rows[i].avg_grade
              /\ 10 * ret.rows[i].avg_grade <= ret.rows[i].max_grade

(* C16 as amended: get_course_statistics returns exactly one row per      *)
(* course that has at least one grade and none for a course without        *)
(* grades; enrolled is the number of distinct student ids graded in the    *)
(* course, rows are in non-increasing order of the average, and the        *)
(* average, being rounded to 2 decimals, lies within half a hundredth of   *)
(* the interval from min to max (min <= avg <= max up to the rounding).    *)
C16_AvgBetweenMinAndMaxRounded ==
    ret # NotApplied =>
        /\ OneRowPerGradedCourse(ret.rows)
        /\ \A i \in 1 .. Len(ret.rows) :
              /\ ret.rows[i].min_grade - 5 <= 10 * ret.rows[i].avg_grade
              /\ 10 * ret.rows[i].avg_grade <= ret.rows[i].max_grade + 5

\* a course whose only grade is 59.999 is reported with the average 60.0,
\* after a course with two students and a higher average
C16_Witness ==
    /\ ret # NotApplied /\ Len(ret.rows) = 2
    /\ ret.rows[1].enrolled = 2 /\ ret.rows[1].avg_grade > 6000
    /\ ret.rows[2].enrolled = 1 /\ ret.rows[2].max_grade = 59999
    /\ ret.rows[2].avg_grade = 6000
    /\ DOMAIN courses = CourseIds

---------------------------------------------------------------------------
(* C17: import_students_csv leaves every existing student untouched,       *)
(* raises no error, and when a row carries an id that already exists the   *)
(* returned count still equals the number of student rows inserted.        *)
C17_ImportCountsInsertedRows ==
    [][(/\ last'.op = "ImportExport.import_students_csv"
        /\ \E i \in 1 .. Len(arg') : arg'[i].id \in DOMAIN students)
       => (/\ last'.outcome = "ok"
           /\ \A s \in DOMAIN students : s \in DOMAIN students' /\ students'[s] = students[s]
           /\ ret'.count = Cardinality(DOMAIN students' \ DOMAIN students))]_vars

(* C18: in import_students_csv a row that fails to insert is not counted,  *)
(* and around a row whose insert raises every student stored before is     *)
(* kept and every valid row of the file (a year that parses, an id not     *)
(* stored before) has its student inserted.                                *)
C18_BadRowSkippedOthersInserted ==
    [][(/\ last'.op = "ImportExport.import_students_csv"
        /\ \E i \in 1 .. Len(arg') : ~arg'[i].year_ok)
       => (/\ ret'.count = Cardinality(DOMAIN students' \ DOMAIN students)
           /\ \A s \in DOMAIN students : s \in DOMAIN students' /\ students'[s] = students[s]
           /\ \A i \in 1 .. Len(arg') : arg'[i].year_ok => arg'[i].id \in DOMAIN students')]_vars

---------------------------------------------------------------------------
(* C19 as stated: recording a grade is the only operation that a failure   *)
(* between two storage calls leaves partially applied; every other         *)
(* operation (add/delete student, add/delete course, the bulk deletes with *)
(* the gpa reset, import) so interrupted leaves the stored state as it     *)
(* was.                                                                    *)
C19_OnlyGradeRecordingPartial ==
    [][(last'.outcome = "OperationalError" /\ last'.op # "GradeManager.add")
       => UNCHANGED db]_vars

(* C19 as amended: every operation that makes more than one storage call   *)
(* keeps what the calls before the failing one have written and lacks the  *)
(* rest: recording a grade leaves the grade row without its log entry, and *)
(* likewise add/delete student, add/delete course, the bulk deletes and    *)
(* import leave their rows written or deleted without the log entry, and   *)
(* the bulk course delete leaves the courses deleted with no gpa reset.    *)
C19_EveryOperationPartial ==
    [][last'.outcome = "OperationalError" =>
        /\ last'.failed >= 2
        /\ last'.op # "AcademicApp.delete_all_courses" => activity_log' = activity_log
        /\ last'.op = "StudentManager.add" =>
              last'.sid \in DOMAIN students' \ DOMAIN students
        /\ last'.op = "StudentManager.delete" =>
              last'.sid \in DOMAIN students \ DOMAIN students'
        /\ last'.op = "StudentManager.delete_all" => students' = <<>>
        /\ last'.op = "CourseManager.add" =>
              last'.cid \in DOMAIN courses' \ DOMAIN courses
        /\ last'.op = "CourseManager.delete" =>
              last'.cid \in DOMAIN courses \ DOMAIN courses'
        /\ last'.op = "CourseManager.delete_all" => courses' = <<>>
        /\ last'.op = "AcademicApp.delete_all_courses" =>
              /\ courses # <<>> /\ courses' = <<>>
              /\ students' = students
              /\ activity_log' = activity_log + (last'.failed - 2)
        /\ last'.op = "GradeManager.add" =>
              \E g \in grades' : /\ g.student_id = last'.sid /\ g.course_id = last'.cid
                                 /\ g.grade = last'.grade
        /\ last'.op = "ImportExport.import_students_csv" =>
              \A s \in DOMAIN students : s \in DOMAIN students' /\ students'[s] = students[s]
      ]_vars

\* the bulk course delete raised at its gpa reset: no course is left, the
\* deletion is logged and a student still has a gpa above 0
C19_Witness ==
    /\ last.op = "AcademicApp.delete_all_courses" /\ last.outcome = "OperationalError"
    /\ last.failed = 3
    /\ courses = <<>>
    /\ \E s \in DOMAIN students : students[s].gpa > 0

---------------------------------------------------------------------------
(* C21: StudentManager.add and CourseManager.add that raise a validation   *)
(* error insert no row and append no log entry, and every call with an id  *)
(* shorter than 3 characters or not alphanumeric, a blank name, a          *)
(* malformed email, a missing course name or semester, or credits outside  *)
(* 1..6 raises it: a call that returns has stored none of these.           *)
C21_ValidationBeforeWrite ==
    [][/\ (/\ last'.op \in {"StudentManager.add", "CourseManager.add"}
           /\ last'.outcome = "ValueError")
          => UNCHANGED db
       /\ (last'.op = "StudentManager.add" /\ last'.outcome # "ValueError")
          => /\ last'.sid \notin {NoId, "S1", "S-01"}
             /\ last'.outcome = "ok" =>
                   /\ students'[last'.sid].name \notin {"", " "}
                   /\ students'[last'.sid].email # "not-an-email"
       /\ (last'.op = "CourseManager.add" /\ last'.outcome # "ValueError")
          => /\ last'.cid \notin {NoId, ""}
             /\ last'.outcome = "ok" =>
                   /\ courses'[last'.cid].name # "" /\ courses'[last'.cid].semester # ""
                   /\ courses'[last'.cid].credits \in 1 .. 6]_vars

\* a validation error was raised by StudentManager.add on a store that
\* holds students, courses and log rows
C21_Witness ==
    /\ last.op = "StudentManager.add" /\ last.outcome = "ValueError"
    /\ DOMAIN students # {} /\ DOMAIN courses # {} /\ activity_log > 0

---------------------------------------------------------------------------
(* C22: GradeManager.add commits the grade upsert, then the gpa update of  *)
(* the student, then one log entry.  Stopped after the upsert, it leaves   *)
(* the new grade stored, every gpa as it was and no log entry; stopped     *)
(* after the gpa update, it leaves the grade and the new gpa and no log    *)
(* entry; a completed call appends exactly one log entry.                  *)
GpaOfLastIsWeightedAverage == GpaIsWeightedAverage(last.sid)

C22_ThreeCommittedSteps ==
    [][last'.op = "GradeManager.add" =>
        /\ last'.outcome = "OperationalError" =>
              /\ last'.failed \in {2, 3}
              /\ \E g \in grades' : /\ g.student_id = last'.sid /\ g.course_id = last'.cid
                                    /\ g.grade = last'.grade
              /\ activity_log' = activity_log
              /\ UNCHANGED courses
              /\ last'.failed = 2 => students' = students
              /\ (/\ last'.failed = 3 /\ last'.sid \in DOMAIN students
                  /\ last'.cid \in DOMAIN courses)
                 => GpaOfLastIsWeightedAverage'
        /\ last'.outcome = "ok" => activity_log' = activity_log + 1]_vars

\* the call stopped after the upsert: an A is stored for a student and a
\* course that exist, the student's gpa is still 0.0
C22_Witness ==
    /\ last.op = "GradeManager.add" /\ last.outcome = "OperationalError"
    /\ last.failed = 2
    /\ last.sid \in DOMAIN students /\ last.cid \in DOMAIN courses
    /\ \E g \in GradeRows(last.sid, last.cid) : g.letter_grade = "A"
    /\ students[last.sid].gpa = 0
    /\ activity_log > 0

---------------------------------------------------------------------------
(* C23: in every reachable state, whatever sequence of StudentManager.add, *)
(* StudentManager.update and import_students_csv produced it, each student *)
(* row has an id of at least 3 alphanumeric characters and a name that is  *)
(* not empty.                                                              *)
C23_StudentRowsWellFormed ==
    \A s \in DOMAIN students :
        /\ IdLen(s) >= 3 /\ IsAlnum(s)
        /\ students[s].name \notin {"", " "}

(* C25: StudentManager.update with a student id that is not stored fails,  *)
(* changes no student row and appends no log entry.                        *)
C25_UpdateOfMissingStudentFails ==
    [][(/\ last'.op = "StudentManager.update"
        /\ last'.sid \in StudentIds \ DOMAIN students)
       => (/\ last'.outcome # "ok"
           /\ students' = students
           /\ activity_log' = activity_log)]_vars

---------------------------------------------------------------------------
(* C24: StudentManager.delete and CourseManager.delete called with an id   *)
(* that is not stored raise the not-found error and leave the students,    *)
(* courses and grades tables and the activity log unchanged.               *)
C24_DeleteOfMissingIdFails ==
    [][/\ (last'.op = "StudentManager.delete" /\ last'.sid \notin DOMAIN students)
          => (last'.outcome = "ValueError" /\ UNCHANGED db)
       /\ (last'.op = "CourseManager.delete" /\ last'.cid \notin DOMAIN courses)
          => (last'.outcome = "ValueError" /\ UNCHANGED db)]_vars

\* a student that is not stored was to be deleted while another student,
\* a course and a grade were stored
C24_Witness ==
    /\ last.op = "StudentManager.delete" /\ last.outcome = "ValueError"
    /\ last.sid \notin DOMAIN students
    /\ DOMAIN students # {} /\ DOMAIN courses # {} /\ grades # {}

---------------------------------------------------------------------------
(* C26: through AcademicApp.add_grade a grade row is written only when the *)
(* student and the course both exist at the time of the write; when either *)
(* is missing the handler reports an error and leaves the grades table,    *)
(* every gpa and the activity log unchanged.                               *)
C26_EntryWritesOnlyForExistingIds ==
    [][last'.op = "AcademicApp.add_grade" =>
        /\ (last'.outcome = "ok" \/ grades' # grades)
           => /\ last'.sid \in DOMAIN students /\ last'.cid \in DOMAIN courses
              /\ last'.sid \in DOMAIN students' /\ last'.cid \in DOMAIN courses'
        /\ (last'.sid \notin DOMAIN students \/ last'.cid \notin DOMAIN courses)
           => /\ last'.outcome = "error"
              /\ UNCHANGED <<grades, students, activity_log>>]_vars

\* the handler refused a grade for a course that does not exist while the
\* student exists, holds a gpa and has a grade row
C26_Witness ==
    /\ last.op = "AcademicApp.add_grade" /\ last.outcome = "error"
    /\ last.sid \in DOMAIN students /\ last.cid \in CourseIds \ DOMAIN courses
    /\ students[last.sid].gpa > 0
    /\ \E g \in grades : g.student_id = last.sid

---------------------------------------------------------------------------
(* C27: after a student or a course is deleted and an entity with the same *)
(* id is added again, no grade recorded before the deletion is visible for *)
(* it: directly after the re-creation the transcript of the student (the   *)
(* grade rows of the student joined to courses) is empty, and so are the   *)
(* grade rows of the course.                                               *)
C27_RecreatedIdStartsWithoutGrades ==
    [][/\ (/\ last.op = "StudentManager.delete" /\ last.outcome = "ok"
           /\ last'.op = "StudentManager.add" /\ last'.outcome = "ok"
           /\ last'.sid = last.sid)
          => JoinedRows(grades', courses', last'.sid) = {}
       /\ (/\ last.op = "CourseManager.delete" /\ last.outcome = "ok"
           /\ last'.op = "CourseManager.add" /\ last'.outcome = "ok"
           /\ last'.cid = last.cid)
          => \A g \in grades' : g.course_id # last'.cid]_vars

---------------------------------------------------------------------------
(* C28: for every student listed by get_gpa_rankings the reported course   *)
(* count equals the number of that student's grade rows that are joined to *)
(* an existing course, i.e. the number of grades that enter the student's  *)
(* gpa computation.                                                        *)
C28_CourseCountIsJoinedGrades ==
    (ret # NotApplied /\ ret.report = "rankings") =>
        \A i \in 1 .. Len(ret.rows) :
            ret.rows[i].courses
                = Cardinality(JoinedRows(grades, courses, ret.rows[i].id))

---------------------------------------------------------------------------
---------------------------------------------------------------------------
(* C30: a successful GradeManager.add for student s and course c changes   *)
(* only the grade row of (s, c), the stored gpa of s and the activity log: *)
(* every other grade row, every other student's row, all courses and every *)
(* field of s other than gpa are unchanged.                                *)
C30_AddChangesOnlyItsRowAndGpa ==
    [][(last'.op = "GradeManager.add" /\ last'.outcome = "ok") =>
        LET s == last'.sid
            c == last'.cid
            Other(g) == ~(g.student_id = s /\ g.course_id = c)
        IN  /\ {g \in grades' : Other(g)} = {g \in grades : Other(g)}
            /\ courses' = courses
            /\ DOMAIN students' = DOMAIN students
            /\ \A t \in DOMAIN students \ {s} : students'[t] = students[t]
            /\ s \in DOMAIN students =>
                  [students'[s] EXCEPT !.gpa = 0] = [students[s] EXCEPT !.gpa = 0]]_vars

\* a grade was recorded for a student who has a grade in the other course
\* too, next to another student who holds a different gpa and a grade
C30_Witness ==
    /\ last.op = "GradeManager.add" /\ last.outcome = "ok"
    /\ last.sid \in DOMAIN students /\ last.cid \in DOMAIN courses
    /\ \E g \in grades : g.student_id = last.sid /\ g.course_id # last.cid
    /\ \E t \in DOMAIN students \ {last.sid} :
          /\ students[t].gpa > 0 /\ students[t].gpa # students[last.sid].gpa
          /\ \E g \in grades : g.student_id = t

====
